---- MODULE Spec2Model ----
(***************************************************************************)
(* The TTL-cached, authenticated facade of vaillant-smart-server           *)
(* (src/client/vaillant_client.py) as the Flask handlers of src/app.py     *)
(* drive it: every handler submits one facade coroutine to the shared      *)
(* asyncio loop and blocks on its future.  The loop runs one coroutine at  *)
(* a time and switches between coroutines only where a coroutine awaits a  *)
(* vendor request, so an action below is one run of a coroutine from one   *)
(* await to the next.                                                      *)
(*                                                                         *)
(* Time is counted in units of five minutes.                               *)
(*                                                                         *)
(* Spec is the server while it serves; SpecShutdown adds the handler of    *)
(* SIGINT and SIGTERM, FairShutdown the scheduling of the loop's thread,   *)
(* and SpecDates runs the gas-consumption route over months and years.     *)
(***************************************************************************)
EXTENDS Integers, Sequences, FiniteSets, TLC

VARIABLES
    now,          \* datetime.now(UTC), in units of five minutes
    ticks,        \* how many times the clock has advanced
    menu,         \* the requests the clients of this run make
    api,          \* vaillant_client.api: None or the session object
    expires,      \* api.oauth_session_expires
    vendor,       \* the vendor's systems, as api.get_systems() yields them
    CACHE,        \* vaillant_client.CACHE
    CACHE_TTL,    \* vaillant_client.CACHE_TTL
    task,         \* per handler thread: its coroutine's position and locals; stale is
                  \* history: the coroutine's cache lookup found an expired entry
    sd,           \* shutdown_server's position, the loop's state, the session's
                  \* connection; hadSession is history: what the handler's test saw
    setAt,        \* history: when set_cache last wrote CACHE[key]
    lastFetch     \* history: what the last completed fetch of a key returned, and when

vars == <<now, ticks, menu, api, expires, vendor, CACHE, CACHE_TTL, task,
          sd, setAt, lastFetch>>

----------------------------------------------------------------------------
(* Bounds of the model *)

MaxTicks == 1
TokenLife == 5
MaxIndex == 1

\* the handler threads that can be blocked on a coroutine at the same time
Tasks == {1, 2}
Indexes == 0..MaxIndex
Months == {12}
Years == {2024}
Temps == {21}
ModeInputs == {"OFF", "bogus"}

----------------------------------------------------------------------------
(* Python values *)

None == [none |-> TRUE]

\* truth value of a facade result: None and the empty dict are false
Truthy(v) == v # None /\ DOMAIN v # {}

IsError(r) == "error" \in DOMAIN r
IsRaise(r) == "raised" \in DOMAIN r

NoSession == "None"
Session == "MyPyllantAPI"
NoExpiry == -1
NoFlow == -1

\* CACHE_TIMES with the zone-info entry given the five minutes of its neighbours
CACHE_TIMES_ZoneInfoShort ==
    [system_info |-> 1, zone_info |-> 1, gas_consumption |-> 48,
     water_pressure |-> 1, zones |-> 1, zone_flow_temp |-> 1]

\* CACHE_TIMES, in units of five minutes
CACHE_TIMES ==
    [system_info |-> 1, zone_info |-> 6, gas_consumption |-> 48,
     water_pressure |-> 1, zones |-> 1, zone_flow_temp |-> 1]

\* str.lower() on the mode strings a request can carry
Lower(s) ==
    CASE s = "OFF" -> "off"
      [] s = "Off" -> "off"
      [] s = "MANUAL" -> "manual"
      [] s = "Manual" -> "manual"
      [] s = "TIME_CONTROLLED" -> "time_controlled"
      [] OTHER -> s

\* mode_map.get(mode.lower()): the enum member's name, or None
mode_map(s) ==
    CASE Lower(s) = "manual" -> "MANUAL"
      [] Lower(s) = "off" -> "OFF"
      [] Lower(s) = "time_controlled" -> "TIME_CONTROLLED"
      [] OTHER -> "None"

----------------------------------------------------------------------------
(* datetime, as get_gas_consumption uses it *)

\* the years datetime can represent
MINYEAR == 1
MAXYEAR == 9999

is_leap(year) == year % 4 = 0 /\ (year % 100 # 0 \/ year % 400 = 0)

\* the number of days before January 1st of the year
days_before_year(year) ==
    (year - 1) * 365 + (year - 1) \div 4 - (year - 1) \div 100 + (year - 1) \div 400

DAYS_BEFORE_MONTH == <<0, 31, 59, 90, 120, 151, 181, 212, 243, 273, 304, 334>>

\* the number of days of the year before the first day of the month
days_before_month(year, month) ==
    DAYS_BEFORE_MONTH[month] + (IF month > 2 /\ is_leap(year) THEN 1 ELSE 0)

\* the ordinal of a day, January 1st of year 1 being day 1
ymd2ord(year, month, day) ==
    days_before_year(year) + days_before_month(year, month) + day

\* datetime(year, month, day) raises ValueError outside of this
ValidDate(year, month) ==
    MINYEAR <= year /\ year <= MAXYEAR /\ 1 <= month /\ month <= 12

\* datetime(year, month, 1): midnight, as the ordinal of its day and the
\* second of that day
datetime(year, month) == [days |-> ymd2ord(year, month, 1), seconds |-> 0]

\* dt - timedelta(seconds=1)
minus_second(dt) ==
    IF dt.seconds = 0 THEN [days |-> dt.days - 1, seconds |-> 86399]
    ELSE [dt EXCEPT !.seconds = @ - 1]

\* start_date = datetime(year, month, 1)
start_date(month, year) == datetime(year, month)

\* end_date that stays in the year of the request in December
end_date_SameYear(month, year) ==
    IF month = 12 THEN minus_second(datetime(year, 1))
    ELSE minus_second(datetime(year, month + 1))

\* end_date = datetime(year + 1, 1, 1) - timedelta(seconds=1) if month == 12
\*            else datetime(year, month + 1, 1) - timedelta(seconds=1)
end_date(month, year) ==
    IF month = 12 THEN minus_second(datetime(year + 1, 1))
    ELSE minus_second(datetime(year, month + 1))

\* one of the datetime(...) calls of the two assignments raises ValueError
DatesRaise(month, year) ==
    \/ ~ValidDate(year, month)
    \/ month = 12 /\ ~ValidDate(year + 1, 1)

----------------------------------------------------------------------------
(* The vendor's data *)

Zone(sys, idx, flow) ==
    [name |-> "zone" \o ToString(sys) \o ToString(idx),
     system_id |-> sys, index |-> idx,
     current_room_temperature |-> 19,
     desired_room_temperature_setpoint |-> 20,
     operation_mode_heating |-> "TIME_CONTROLLED",
     current_circuit_flow_temperature |-> flow]

HotWater(buckets) ==
    [operation_mode |-> "DOMESTIC_HOT_WATER",
     energy_type |-> "CONSUMED_PRIMARY_ENERGY", data |-> buckets]
Heating(buckets) ==
    [operation_mode |-> "HEATING",
     energy_type |-> "CONSUMED_PRIMARY_ENERGY", data |-> buckets]

Boiler(data) == [device_type |-> "BOILER", data |-> data]
Control == [device_type |-> "CONTROL", data |-> <<>>]

\* one installation with one zone and a boiler that reports hot-water data
HomeA ==
    [id |-> 1, water_pressure |-> 2,
     zones |-> <<Zone(1, 0, 35)>>,
     devices |-> <<Control, Boiler(<<Heating(<<7>>), HotWater(<<12345, 5>>)>>)>>]
\* an installation whose zone has no flow temperature and whose boiler
\* reports no hot-water bucket
HomeB ==
    [id |-> 1, water_pressure |-> 1,
     zones |-> <<Zone(1, 0, NoFlow)>>,
     devices |-> <<Boiler(<<HotWater(<<>>)>>)>>]
\* a second installation with two zones
HomeC ==
    [id |-> 2, water_pressure |-> 3,
     zones |-> <<Zone(2, 0, 30), Zone(2, 1, 31)>>,
     devices |-> <<Boiler(<<HotWater(<<20000>>)>>)>>]

VendorConfigs == {<<>>, <<HomeA>>, <<HomeB, HomeC>>}

----------------------------------------------------------------------------
(* The requests a handler can submit *)

ReadNames == {"get_gas_consumption", "get_water_pressure", "get_zones",
              "get_zone_info", "get_zone_flow_temperature", "get_system_info"}
WriteNames == {"update_zone_mode", "update_zone_temperature"}

NoOp == [name |-> "none", a |-> 0, b |-> 0, mode |-> ""]

Ops ==
    [name : {"get_water_pressure", "get_zones", "get_system_info"},
     a : {0}, b : {0}, mode : {""}]
    \cup [name : {"get_zone_info", "get_zone_flow_temperature"},
          a : Indexes, b : {0}, mode : {""}]
    \cup [name : {"get_gas_consumption"}, a : Months, b : Years, mode : {""}]
    \cup [name : {"update_zone_mode"}, a : Indexes, b : {0}, mode : ModeInputs]
    \cup [name : {"update_zone_temperature"}, a : Indexes, b : Temps, mode : {""}]

Op(name, a, b, mode) == [name |-> name, a |-> a, b |-> b, mode |-> mode]

\* the clients of one run: one that polls a single reading, or one that
\* watches a zone and changes its mode or its setpoint
Workloads ==
    {{o} : o \in {o \in Ops : o.name \in ReadNames}}
    \cup {{Op("get_zone_info", o.a, 0, ""), o} : o \in {o \in Ops : o.name \in WriteNames}}

IsRead(o) == o.name \in ReadNames
IsWrite(o) == o.name \in WriteNames

\* the data kind of a read operation: its entry of CACHE_TIMES
Kind(o) ==
    CASE o.name = "get_gas_consumption" -> "gas_consumption"
      [] o.name = "get_water_pressure" -> "water_pressure"
      [] o.name = "get_zones" -> "zones"
      [] o.name = "get_zone_info" -> "zone_info"
      [] o.name = "get_zone_flow_temperature" -> "zone_flow_temp"
      [] o.name = "get_system_info" -> "system_info"

\* the f-string each read operation builds as its cache key
cache_key(o) ==
    CASE o.name = "get_gas_consumption" ->
            "gas_consumption_" \o ToString(o.b) \o "_" \o ToString(o.a)
      [] o.name = "get_water_pressure" -> "water_pressure"
      [] o.name = "get_zones" -> "zones"
      [] o.name = "get_zone_info" -> "zone_info_" \o ToString(o.a)
      [] o.name = "get_zone_flow_temperature" -> "zone_flow_temp_" \o ToString(o.a)
      [] o.name = "get_system_info" -> "system_info"

----------------------------------------------------------------------------
(* The cache *)

\* get_from_cache with the expiry instant itself still served
get_from_cache_AtExpiry(key) ==
    IF key \in DOMAIN CACHE /\ CACHE_TTL[key] >= now THEN CACHE[key] ELSE None

\* def get_from_cache(key)
get_from_cache(key) ==
    IF key \in DOMAIN CACHE /\ CACHE_TTL[key] > now THEN CACHE[key] ELSE None

\* set_cache that leaves the expiry of an entry it overwrites as it was
set_cache_KeepExpiry(key, value, ttl) ==
    /\ CACHE' = (key :> value) @@ CACHE
    /\ CACHE_TTL' = IF key \in DOMAIN CACHE_TTL THEN CACHE_TTL
                     ELSE (key :> (now + ttl)) @@ CACHE_TTL
    /\ setAt' = (key :> now) @@ setAt

\* def set_cache(key, value, ttl)
set_cache(key, value, ttl) ==
    /\ CACHE' = (key :> value) @@ CACHE
    /\ CACHE_TTL' = (key :> (now + ttl)) @@ CACHE_TTL
    /\ setAt' = (key :> now) @@ setAt

NoCacheWrite == UNCHANGED <<CACHE, CACHE_TTL, setAt>>

----------------------------------------------------------------------------
(* The event loop and the shutdown handler *)

\* before any signal: loop.run_forever() is running in its thread
NoShutdown ==
    [pc |-> "none", close |-> "none", loop |-> "running", hadSession |-> FALSE]

\* the loop still runs callbacks: loop.stop() has not taken effect
LoopRuns == sd.loop # "stopped"

----------------------------------------------------------------------------
(* A coroutine's position and locals *)

\* auths is history: how many times the coroutine has awaited login() or
\* refresh_token(); req holds start_date and end_date of its data request
Idle ==
    [pc |-> "idle", op |-> NoOp, i |-> 0, d |-> 0, calls |-> {}, auths |-> 0,
     req |-> None, ret |-> None, stale |-> FALSE]

\* the positions at which a coroutine is suspended on a vendor request
InFlightPcs == {"login", "refresh", "systems", "data", "api_base", "patch", "setpoint"}

InFlight(t) == task[t].pc \in InFlightPcs

\* suspend on the vendor request `kind`
Call(tk, pc, kind) ==
    [tk EXCEPT !.pc = pc, !.calls = @ \cup {kind},
               !.auths = IF kind \in {"login", "refresh_token"} THEN @ + 1 ELSE @]
\* the coroutine returns r, or raises e: the handler's future holds it
Return(tk, r) == [tk EXCEPT !.pc = "done", !.ret = r]
Raise(tk, e) == Return(tk, [raised |-> e])

\* async for system in api.get_systems(): ask for the next system
NextSystem(tk) == Call([tk EXCEPT !.i = @ + 1, !.d = 0], "systems", "get_systems")

\* the expiry test with a token refreshed only once its expiry has passed
ExpiryCheck_StrictlyPast(tk, e) ==
    IF e = NoExpiry THEN Raise(tk, "TypeError")
    ELSE IF e < now THEN Call(tk, "refresh", "refresh_token")
    ELSE NextSystem([tk EXCEPT !.i = 0])

\* the expiry test that lets a session without an expiry pass
ExpiryCheck_UnsetPasses(tk, e) ==
    IF e # NoExpiry /\ e <= now THEN Call(tk, "refresh", "refresh_token")
    ELSE NextSystem([tk EXCEPT !.i = 0])

\* ensure_authenticated from its expiry test on, the session's expiry being e.
\* A session whose login has not completed has no expiry, and the
\* comparison with datetime.now(UTC) raises.
ExpiryCheck(tk, e) ==
    IF e = NoExpiry THEN Raise(tk, "TypeError")
    ELSE IF e <= now THEN Call(tk, "refresh", "refresh_token")
    ELSE NextSystem([tk EXCEPT !.i = 0])

\* ensure_authenticated that logs in again while the session has no token
ensure_authenticated_UntilLoggedIn(t, tk) ==
    IF api = NoSession \/ expires = NoExpiry
    THEN /\ api' = Session
         /\ task' = [task EXCEPT ![t] = Call(tk, "login", "login")]
         /\ UNCHANGED expires
    ELSE /\ task' = [task EXCEPT ![t] = ExpiryCheck(tk, expires)]
         /\ UNCHANGED <<api, expires>>

\* async def ensure_authenticated(), up to its first await (init_api included)
ensure_authenticated(t, tk) ==
    IF api = NoSession
    THEN /\ api' = Session
         /\ task' = [task EXCEPT ![t] = Call(tk, "login", "login")]
         /\ UNCHANGED expires
    ELSE /\ task' = [task EXCEPT ![t] = ExpiryCheck(tk, expires)]
         /\ UNCHANGED <<api, expires>>

----------------------------------------------------------------------------
(* What each operation does with a system that get_systems() yields *)

ReturnDec(r, store) ==
    [do |-> "return", ret |-> r, store |-> store, pc |-> "", kind |-> "", d |-> 0,
     req |-> None]
NextDec ==
    [do |-> "next", ret |-> None, store |-> FALSE, pc |-> "", kind |-> "", d |-> 0,
     req |-> None]
CallDec(pc, kind, d) ==
    [do |-> "call", ret |-> None, store |-> FALSE, pc |-> pc, kind |-> kind, d |-> d,
     req |-> None]
RaiseDec(e) ==
    [do |-> "raise", ret |-> [raised |-> e], store |-> FALSE, pc |-> "", kind |-> "",
     d |-> 0, req |-> None]

InRange(idx, system) == 0 <= idx /\ idx < Len(system.zones)

\* the first BOILER device of the system after position d, or 0
NextBoiler(system, d) ==
    LET S == {n \in (d + 1)..Len(system.devices) :
                 system.devices[n].device_type = "BOILER"}
    IN IF S = {} THEN 0 ELSE CHOOSE n \in S : \A m \in S : n <= m

\* for device in system.devices, from position d on: for the next boiler
\* the window is computed and the data requested
gas_devices(o, system, d) ==
    IF NextBoiler(system, d) = 0 THEN NextDec
    ELSE IF DatesRaise(o.a, o.b) THEN RaiseDec("ValueError")
    ELSE [CallDec("data", "get_data_by_device", NextBoiler(system, d)) EXCEPT
             !.req = [start |-> start_date(o.a, o.b), end |-> end_date(o.a, o.b)]]

\* the first hot-water, consumed-primary-energy data set that has a bucket
FirstBucket(data) ==
    LET S == {n \in 1..Len(data) :
                 /\ data[n].operation_mode = "DOMESTIC_HOT_WATER"
                 /\ data[n].energy_type = "CONSUMED_PRIMARY_ENERGY"
                 /\ Len(data[n].data) > 0}
    IN IF S = {} THEN 0 ELSE CHOOSE n \in S : \A m \in S : n <= m

\* value_m3 = bucket.value / 10000, kept as a fraction
gas_result(value) == [consumption_m3 |-> [num |-> value, den |-> 10000]]

\* async for data in api.get_data_by_device(...): the body, once the data is there
gas_data(o, system, d) ==
    LET data == system.devices[d].data
    IN IF FirstBucket(data) = 0 THEN gas_devices(o, system, d)
       ELSE ReturnDec(gas_result(data[FirstBucket(data)].data[1]), TRUE)

zones_result(system) ==
    [zones |-> [n \in 1..Len(system.zones) |->
                    [index |-> n - 1, name |-> system.zones[n].name]]]

zone_info_result(idx, zone) ==
    [index |-> idx, name |-> zone.name,
     current_temperature |-> zone.current_room_temperature,
     desired_temperature |-> zone.desired_room_temperature_setpoint,
     heating_state |-> zone.operation_mode_heating]

get_zone_info_body(idx, system) ==
    IF InRange(idx, system)
    THEN ReturnDec(zone_info_result(idx, system.zones[idx + 1]), TRUE)
    ELSE NextDec

\* get_zone_flow_temperature that caches whatever it returns
get_zone_flow_temperature_body_CacheAll(idx, system) ==
    IF InRange(idx, system)
    THEN LET flow_temp == system.zones[idx + 1].current_circuit_flow_temperature
         IN IF flow_temp # NoFlow
            THEN ReturnDec([flow_temperature |-> flow_temp], TRUE)
            ELSE ReturnDec([error |-> "Flow temperature not available for this zone"], TRUE)
    ELSE NextDec

get_zone_flow_temperature_body(idx, system) ==
    IF InRange(idx, system)
    THEN LET flow_temp == system.zones[idx + 1].current_circuit_flow_temperature
         IN IF flow_temp # NoFlow
            THEN ReturnDec([flow_temperature |-> flow_temp], TRUE)
            ELSE ReturnDec([error |-> "Flow temperature not available for this zone"], FALSE)
    ELSE NextDec

update_zone_mode_body(idx, mode, system) ==
    IF InRange(idx, system)
    THEN IF mode_map(mode) = "None"
         THEN ReturnDec([error |-> "Invalid mode"], FALSE)
         ELSE CallDec("api_base", "get_system_api_base", 0)
    ELSE NextDec

update_zone_temperature_body(idx, system) ==
    IF InRange(idx, system)
    THEN CallDec("setpoint", "set_manual_mode_setpoint", 0)
    ELSE NextDec

\* the loop body of operation o for one system
Body(o, system) ==
    CASE o.name = "get_gas_consumption" -> gas_devices(o, system, 0)
      [] o.name = "get_water_pressure" ->
            ReturnDec([pressure |-> system.water_pressure], TRUE)
      [] o.name = "get_zones" -> ReturnDec(zones_result(system), TRUE)
      [] o.name = "get_zone_info" -> get_zone_info_body(o.a, system)
      [] o.name = "get_zone_flow_temperature" ->
            get_zone_flow_temperature_body(o.a, system)
      [] o.name = "get_system_info" -> ReturnDec(system, TRUE)
      [] o.name = "update_zone_mode" -> update_zone_mode_body(o.a, o.mode, system)
      [] o.name = "update_zone_temperature" -> update_zone_temperature_body(o.a, system)

\* the return statement after the loop, reached when no system is left
Exhausted(o) ==
    CASE o.name \in {"get_gas_consumption", "get_water_pressure", "get_zones"} ->
            [error |-> "No data found"]
      [] o.name = "get_system_info" -> [error |-> "No system found"]
      [] OTHER -> [error |-> "Zone not found"]

----------------------------------------------------------------------------
(* Actions *)

Init ==
    /\ now = 0
    /\ ticks = 0
    /\ menu \in Workloads
    /\ api = NoSession
    /\ expires = NoExpiry
    /\ vendor \in VendorConfigs
    /\ CACHE = <<>>
    /\ CACHE_TTL = <<>>
    /\ setAt = <<>>
    /\ lastFetch = <<>>
    /\ task = [t \in Tasks |-> Idle]
    /\ sd = NoShutdown

\* a route handler: asyncio.run_coroutine_threadsafe(vaillant_client.<o>(...), loop)
Submit(t, o) ==
    /\ o \in menu
    /\ task[t].pc = "idle"
    /\ \A u \in Tasks : u < t => task[u].pc # "idle"
    /\ task' = [task EXCEPT ![t] = [Idle EXCEPT !.pc = "scheduled", !.op = o]]
    /\ UNCHANGED <<sd, now, ticks, menu, api, expires, vendor, CACHE, CACHE_TTL, setAt, lastFetch>>

\* the coroutine runs from its first line to its first await: a read
\* operation looks its key up in the cache, and on a miss, as every write
\* operation, goes on to ensure_authenticated()
Start(t) ==
    /\ LoopRuns
    /\ task[t].pc = "scheduled"
    /\ LET o == task[t].op
           tk == [task[t] EXCEPT
                     !.stale = IsRead(o) /\ cache_key(o) \in DOMAIN CACHE
                               /\ get_from_cache(cache_key(o)) = None]
       IN IF IsRead(o) /\ Truthy(get_from_cache(cache_key(o)))
          THEN /\ task' = [task EXCEPT ![t] = Return(tk, get_from_cache(cache_key(o)))]
               /\ UNCHANGED <<api, expires>>
          ELSE ensure_authenticated(t, tk)
    /\ UNCHANGED <<sd, now, ticks, menu, vendor, CACHE, CACHE_TTL, setAt, lastFetch>>

\* a login that is tried once more when it raises
LoginReturn_Retry(t, ok) ==
    /\ LoopRuns
    /\ task[t].pc = "login"
    /\ IF ok
       THEN /\ expires' = now + TokenLife
            /\ task' = [task EXCEPT ![t] = ExpiryCheck(task[t], now + TokenLife)]
       ELSE /\ task' = [task EXCEPT ![t] =
                           IF task[t].auths < 2 THEN Call(task[t], "login", "login")
                           ELSE Raise(task[t], "AuthError")]
            /\ UNCHANGED expires
    /\ UNCHANGED <<sd, now, ticks, menu, api, vendor, CACHE, CACHE_TTL, setAt, lastFetch>>

\* await api.login() returns or raises; on return init_api returns and
\* ensure_authenticated goes on to its expiry test
LoginReturn(t, ok) ==
    /\ LoopRuns
    /\ task[t].pc = "login"
    /\ IF ok
       THEN /\ expires' = now + TokenLife
            /\ task' = [task EXCEPT ![t] = ExpiryCheck(task[t], now + TokenLife)]
       ELSE /\ task' = [task EXCEPT ![t] = Raise(task[t], "AuthError")]
            /\ UNCHANGED expires
    /\ UNCHANGED <<sd, now, ticks, menu, api, vendor, CACHE, CACHE_TTL, setAt, lastFetch>>

\* await api.refresh_token() returns or raises
RefreshReturn(t, ok) ==
    /\ LoopRuns
    /\ task[t].pc = "refresh"
    /\ IF ok
       THEN /\ expires' = now + TokenLife
            /\ task' = [task EXCEPT ![t] = NextSystem([task[t] EXCEPT !.i = 0])]
       ELSE /\ task' = [task EXCEPT ![t] = Raise(task[t], "AuthError")]
            /\ UNCHANGED expires
    /\ UNCHANGED <<sd, now, ticks, menu, api, vendor, CACHE, CACHE_TTL, setAt, lastFetch>>

\* carry out what the loop body decided
Apply(t, dec) ==
    LET o == task[t].op IN
    CASE dec.do = "return" ->
            /\ task' = [task EXCEPT ![t] = Return(task[t], dec.ret)]
            /\ IF dec.store
               THEN set_cache(cache_key(o), dec.ret, CACHE_TIMES[Kind(o)])
               ELSE NoCacheWrite
            /\ lastFetch' = IF IsRead(o)
                            THEN (cache_key(o) :> [ret |-> dec.ret, at |-> now]) @@ lastFetch
                            ELSE lastFetch
      [] dec.do = "next" ->
            /\ task' = [task EXCEPT ![t] = NextSystem(task[t])]
            /\ NoCacheWrite
            /\ UNCHANGED lastFetch
      [] dec.do = "call" ->
            /\ task' = [task EXCEPT ![t] =
                           Call([task[t] EXCEPT !.d = dec.d, !.req = dec.req],
                                dec.pc, dec.kind)]
            /\ NoCacheWrite
            /\ UNCHANGED lastFetch
      [] dec.do = "raise" ->
            /\ task' = [task EXCEPT ![t] = Return(task[t], dec.ret)]
            /\ NoCacheWrite
            /\ UNCHANGED lastFetch

\* async for system in api.get_systems(): the vendor yields the next system,
\* has none left, or the request fails
SystemsNext(t, ok) ==
    /\ LoopRuns
    /\ task[t].pc = "systems"
    /\ IF ~ok
       THEN /\ task' = [task EXCEPT ![t] = Raise(task[t], "VendorError")]
            /\ NoCacheWrite
            /\ UNCHANGED lastFetch
       ELSE IF task[t].i > Len(vendor)
       THEN Apply(t, ReturnDec(Exhausted(task[t].op), FALSE))
       ELSE Apply(t, Body(task[t].op, vendor[task[t].i]))
    /\ UNCHANGED <<sd, now, ticks, menu, api, expires, vendor>>

\* async for data in api.get_data_by_device(device, MONTH, start_date, end_date)
DataReturn(t, ok) ==
    /\ LoopRuns
    /\ task[t].pc = "data"
    /\ IF ~ok
       THEN /\ task' = [task EXCEPT ![t] = Raise(task[t], "VendorError")]
            /\ NoCacheWrite
            /\ UNCHANGED lastFetch
       ELSE Apply(t, gas_data(task[t].op, vendor[task[t].i], task[t].d))
    /\ UNCHANGED <<sd, now, ticks, menu, api, expires, vendor>>

TargetZone(t) == vendor[task[t].i].zones[task[t].op.a + 1]

mode_failed(t) ==
    [error |-> "Failed to update mode for zone " \o TargetZone(t).name \o ": VendorError"]
mode_done(t) ==
    [message |-> "Zone " \o TargetZone(t).name \o " mode set to " \o task[t].op.mode]
temperature_failed(t) ==
    [error |-> "Failed to set temperature for zone " \o TargetZone(t).name \o ": VendorError"]
temperature_done(t) ==
    [message |-> "Temperature for zone " \o TargetZone(t).name \o " set to "
                     \o ToString(task[t].op.b) \o "C"]

\* await api.get_system_api_base(zone.system_id), inside the try
ApiBaseReturn(t, ok) ==
    /\ LoopRuns
    /\ task[t].pc = "api_base"
    /\ task' = [task EXCEPT ![t] =
                   IF ok THEN Call(task[t], "patch", "patch")
                   ELSE Return(task[t], mode_failed(t))]
    /\ UNCHANGED <<sd, now, ticks, menu, api, expires, vendor, CACHE, CACHE_TTL,
                   setAt, lastFetch>>

\* await api.aiohttp_session.patch(url, json={"operationMode": new_mode.name}, ...)
PatchReturn(t, ok) ==
    /\ LoopRuns
    /\ task[t].pc = "patch"
    /\ IF ok
       THEN /\ vendor' = [vendor EXCEPT
                             ![task[t].i].zones[task[t].op.a + 1].operation_mode_heating =
                                 mode_map(task[t].op.mode)]
            /\ task' = [task EXCEPT ![t] = Return(task[t], mode_done(t))]
       ELSE /\ task' = [task EXCEPT ![t] = Return(task[t], mode_failed(t))]
            /\ UNCHANGED vendor
    /\ UNCHANGED <<sd, now, ticks, menu, api, expires, CACHE, CACHE_TTL, setAt, lastFetch>>

\* update_zone_temperature that drops the zone's cached info once the
\* setpoint is changed
SetpointReturn_Invalidating(t, ok) ==
    /\ LoopRuns
    /\ task[t].pc = "setpoint"
    /\ IF ok
       THEN /\ vendor' = [vendor EXCEPT
                             ![task[t].i].zones[task[t].op.a + 1].desired_room_temperature_setpoint =
                                 task[t].op.b]
            /\ task' = [task EXCEPT ![t] = Return(task[t], temperature_done(t))]
            /\ LET keep == DOMAIN CACHE \ {"zone_info_" \o ToString(task[t].op.a)} IN
                 /\ CACHE' = [k \in keep |-> CACHE[k]]
                 /\ CACHE_TTL' = [k \in keep |-> CACHE_TTL[k]]
                 /\ setAt' = [k \in keep |-> setAt[k]]
       ELSE /\ task' = [task EXCEPT ![t] = Return(task[t], temperature_failed(t))]
            /\ UNCHANGED <<vendor, CACHE, CACHE_TTL, setAt>>
    /\ UNCHANGED <<sd, now, ticks, menu, api, expires, lastFetch>>

\* await api.set_manual_mode_setpoint(zone, temperature, "heating")
SetpointReturn(t, ok) ==
    /\ LoopRuns
    /\ task[t].pc = "setpoint"
    /\ IF ok
       THEN /\ vendor' = [vendor EXCEPT
                             ![task[t].i].zones[task[t].op.a + 1].desired_room_temperature_setpoint =
                                 task[t].op.b]
            /\ task' = [task EXCEPT ![t] = Return(task[t], temperature_done(t))]
       ELSE /\ task' = [task EXCEPT ![t] = Return(task[t], temperature_failed(t))]
            /\ UNCHANGED vendor
    /\ UNCHANGED <<sd, now, ticks, menu, api, expires, CACHE, CACHE_TTL, setAt, lastFetch>>

\* the handler's future.result() returns the result or re-raises
Collect(t) ==
    /\ task[t].pc = "done"
    /\ task' = [task EXCEPT ![t] = Idle]
    /\ UNCHANGED <<sd, now, ticks, menu, api, expires, vendor, CACHE, CACHE_TTL,
                   setAt, lastFetch>>

\* the instants at which a cache entry or the session's token expires
Deadlines ==
    {CACHE_TTL[k] : k \in DOMAIN CACHE_TTL}
    \cup (IF expires = NoExpiry THEN {} ELSE {expires})

\* the clock advances, by one unit or up to a later deadline
Tick(d) ==
    /\ ticks < MaxTicks
    /\ d > now
    /\ ticks' = ticks + 1
    /\ now' = d
    /\ UNCHANGED <<sd, menu, api, expires, vendor, CACHE, CACHE_TTL, task, setAt,
                   lastFetch>>

Next ==
    \/ \E t \in Tasks, o \in Ops : Submit(t, o)
    \/ \E t \in Tasks : Start(t)
    \/ \E t \in Tasks, ok \in BOOLEAN : LoginReturn(t, ok)
    \/ \E t \in Tasks, ok \in BOOLEAN : RefreshReturn(t, ok)
    \/ \E t \in Tasks, ok \in BOOLEAN : SystemsNext(t, ok)
    \/ \E t \in Tasks, ok \in BOOLEAN : DataReturn(t, ok)
    \/ \E t \in Tasks, ok \in BOOLEAN : ApiBaseReturn(t, ok)
    \/ \E t \in Tasks, ok \in BOOLEAN : PatchReturn(t, ok)
    \/ \E t \in Tasks, ok \in BOOLEAN : SetpointReturn(t, ok)
    \/ \E t \in Tasks : Collect(t)
    \/ \E d \in {now + 1} \cup Deadlines : Tick(d)

Spec == Init /\ [][Next]_vars

----------------------------------------------------------------------------
(* Shutdown: app.py's handler of SIGINT and SIGTERM *)

\* shutdown_server that asks the loop to stop without waiting for the close
ShutdownSignal_NoWait ==
    /\ sd.pc = "none"
    /\ sd' = IF api # NoSession
             THEN [pc |-> "returned", close |-> "scheduled", loop |-> "stop_requested",
                   hadSession |-> TRUE]
             ELSE [pc |-> "returned", close |-> "none", loop |-> "stop_requested",
                   hadSession |-> FALSE]
    /\ UNCHANGED <<now, ticks, menu, api, expires, vendor, CACHE, CACHE_TTL, task,
                   setAt, lastFetch>>

\* def shutdown_server(signal, frame), as far as it runs without blocking:
\* with a session it submits aiohttp_session.close() to the loop and blocks
\* in future.result(); without one it goes straight to
\* loop.call_soon_threadsafe(loop.stop) and returns
ShutdownSignal ==
    /\ sd.pc = "none"
    /\ sd' = IF api # NoSession
             THEN [pc |-> "wait_close", close |-> "scheduled", loop |-> "running",
                   hadSession |-> TRUE]
             ELSE [pc |-> "returned", close |-> "none", loop |-> "stop_requested",
                   hadSession |-> FALSE]
    /\ UNCHANGED <<now, ticks, menu, api, expires, vendor, CACHE, CACHE_TTL, task,
                   setAt, lastFetch>>

\* the loop runs the coroutine api.aiohttp_session.close()
CloseRun ==
    /\ LoopRuns
    /\ sd.close = "scheduled"
    /\ sd' = [sd EXCEPT !.close = "done"]
    /\ UNCHANGED <<now, ticks, menu, api, expires, vendor, CACHE, CACHE_TTL, task,
                   setAt, lastFetch>>

\* future.result() returns in shutdown_server, which then calls
\* loop.call_soon_threadsafe(loop.stop) and returns
StopRequest ==
    /\ sd.pc = "wait_close"
    /\ sd.close = "done"
    /\ sd' = [sd EXCEPT !.pc = "returned", !.loop = "stop_requested"]
    /\ UNCHANGED <<now, ticks, menu, api, expires, vendor, CACHE, CACHE_TTL, task,
                   setAt, lastFetch>>

\* the loop runs the loop.stop callback: run_forever() returns
LoopStop ==
    /\ sd.loop = "stop_requested"
    /\ sd' = [sd EXCEPT !.loop = "stopped"]
    /\ UNCHANGED <<now, ticks, menu, api, expires, vendor, CACHE, CACHE_TTL, task,
                   setAt, lastFetch>>

\* shutdown_server and the callbacks it queues on the loop
Shutdown == ShutdownSignal \/ CloseRun \/ StopRequest \/ LoopStop

NextShutdown ==
    \/ Next
    \/ ShutdownSignal
    \/ CloseRun
    \/ StopRequest
    \/ LoopStop

\* the clients of a run in which the server is signalled: one that reads
\* the gas consumption, changes a zone's mode, or changes its setpoint
ShutdownWorkloads ==
    {{Op("get_gas_consumption", 12, 2024, "")},
     {Op("update_zone_mode", 0, 0, "OFF")},
     {Op("update_zone_temperature", 0, 21, "")}}

InitShutdown ==
    /\ now = 0
    /\ ticks = 0
    /\ menu \in ShutdownWorkloads
    /\ api = NoSession
    /\ expires = NoExpiry
    /\ vendor = <<HomeA>>
    /\ CACHE = <<>>
    /\ CACHE_TTL = <<>>
    /\ setAt = <<>>
    /\ lastFetch = <<>>
    /\ task = [t \in Tasks |-> Idle]
    /\ sd = NoShutdown

\* the server with its signal handler
SpecShutdown == InitShutdown /\ [][NextShutdown]_vars

\* the loop's thread runs every callback that is queued on it, and the
\* handler's thread goes on once its future has a result
FairShutdown ==
    /\ SpecShutdown
    /\ WF_vars(CloseRun)
    /\ WF_vars(StopRequest)
    /\ WF_vars(LoopStop)

----------------------------------------------------------------------------
(* The gas-consumption route alone, over many months and years *)

DateMonths == 0..13
DateYears == {1, 1900, 2000, 2023, 2024, 2100, 9998, 9999}

DateWorkloads ==
    {{Op("get_gas_consumption", month, year, "")} : month \in DateMonths, year \in DateYears}

InitDates ==
    /\ now = 0
    /\ ticks = 0
    /\ menu \in DateWorkloads
    /\ api = NoSession
    /\ expires = NoExpiry
    /\ vendor = <<HomeA>>
    /\ CACHE = <<>>
    /\ CACHE_TTL = <<>>
    /\ setAt = <<>>
    /\ lastFetch = <<>>
    /\ task = [t \in Tasks |-> Idle]
    /\ sd = NoShutdown

NextDates ==
    \/ \E t \in Tasks : \E o \in menu : Submit(t, o)
    \/ \E t \in Tasks : Start(t)
    \/ \E t \in Tasks, ok \in BOOLEAN : LoginReturn(t, ok)
    \/ \E t \in Tasks, ok \in BOOLEAN : SystemsNext(t, ok)
    \/ \E t \in Tasks, ok \in BOOLEAN : DataReturn(t, ok)
    \/ \E t \in Tasks : Collect(t)

\* GET /boiler-consumption/<int:year>/<int:month>, requested while the token
\* of the first login is valid
SpecDates == InitDates /\ [][NextDates]_vars

----------------------------------------------------------------------------
(* Properties *)

\* the TTL windows of the data kinds, in units of five minutes:
\* system-info 5 min, zone-info 30 min, gas-consumption 4 hours,
\* water-pressure 5 min, zone-list 5 min, flow-temperature 5 min
TtlWindow ==
    [system_info |-> 1, zone_info |-> 6, gas_consumption |-> 48,
     water_pressure |-> 1, zones |-> 1, zone_flow_temp |-> 1]

\* this step is the first run of t's coroutine
Starts(t) == task[t].pc = "scheduled" /\ task'[t].pc # "scheduled"

\* this step makes t's coroutine return r without any vendor request
ReturnsAtOnce(t, r) ==
    /\ task'[t].pc = "done"
    /\ task'[t].calls = {}
    /\ task'[t].ret = r

\* C1: while the token is expired, two operations that reach
\* ensure_authenticated cause one refresh_token call; no two token
\* refreshes are ever in flight at the same time.
C1_SingleRefresh ==
    Cardinality({t \in Tasks : task[t].pc = "refresh"}) <= 1

\* C2 as stated: a read operation called again within the TTL window of its
\* data kind, counted from the previous fetch of the same key, issues no
\* further vendor call and returns what the previous call returned.
C2_SecondCallCached ==
    [][\A t \in Tasks :
          (/\ Starts(t)
           /\ IsRead(task[t].op)
           /\ cache_key(task[t].op) \in DOMAIN lastFetch
           /\ now < lastFetch[cache_key(task[t].op)].at + TtlWindow[Kind(task[t].op)])
          => ReturnsAtOnce(t, lastFetch[cache_key(task[t].op)].ret)]_vars

\* C2 amended: a read operation called again within the TTL window of its
\* data kind after a fetch of the same key that returned a result other than
\* an error result issues no vendor call and returns that same result.
C2_SecondCallCachedUnlessError ==
    [][\A t \in Tasks :
          (/\ Starts(t)
           /\ IsRead(task[t].op)
           /\ cache_key(task[t].op) \in DOMAIN lastFetch
           /\ ~IsError(lastFetch[cache_key(task[t].op)].ret)
           /\ now < lastFetch[cache_key(task[t].op)].at + TtlWindow[Kind(task[t].op)])
          => ReturnsAtOnce(t, lastFetch[cache_key(task[t].op)].ret)]_vars

\* a read operation has returned the result of the previous fetch of its key
\* without a vendor call
C2_Witness ==
    \E t \in Tasks :
        /\ IsRead(task[t].op)
        /\ task[t].pc = "done"
        /\ task[t].calls = {}
        /\ cache_key(task[t].op) \in DOMAIN lastFetch
        /\ task[t].ret = lastFetch[cache_key(task[t].op)].ret
        /\ ~IsError(task[t].ret)

\* C3: a read operation is served from the cache only while the clock is
\* strictly before the entry's expiry (the time of the set plus the TTL of
\* the kind), and is then served the stored value; from the expiry instant
\* on the operation does not return the old value but goes to the vendor.
C3_NeverStale ==
    [][\A t \in Tasks :
          (Starts(t) /\ IsRead(task[t].op)) =>
             LET k == cache_key(task[t].op) IN
             IF k \in DOMAIN CACHE /\ now < setAt[k] + TtlWindow[Kind(task[t].op)]
             THEN ReturnsAtOnce(t, CACHE[k])
             ELSE \/ task'[t].pc \in {"login", "refresh", "systems"}
                  \/ IsRaise(task'[t].ret)]_vars

\* a read operation found its entry at the very instant of its expiry and
\* is fetching from the vendor
C3_Witness ==
    \E t \in Tasks :
        /\ IsRead(task[t].op)
        /\ task[t].stale
        /\ task[t].pc = "systems"
        /\ CACHE_TTL[cache_key(task[t].op)] = now

\* a mode string that maps, case-insensitively, to manual, off or time_controlled
Recognised(mode) == Lower(mode) \in {"manual", "off", "time_controlled"}

\* the length N of the zone list: that of the one system the vendor is
\* taken to have, the first
ZoneCount == IF vendor = <<>> THEN 0 ELSE Len(vendor[1].zones)

\* C4: update_zone_mode with an unrecognised mode string makes no vendor
\* request at all, and for a valid index returns the "Invalid mode" error.
C4_InvalidModeNoVendorCall ==
    \A t \in Tasks :
        (task[t].op.name = "update_zone_mode" /\ ~Recognised(task[t].op.mode)) =>
            /\ task[t].calls = {}
            /\ (task[t].pc = "done" /\ task[t].op.a \in 0..(ZoneCount - 1))
                   => task[t].ret = [error |-> "Invalid mode"]

\* C5: with an index outside [0, N) the zone operations return the
\* "Zone not found" error and issue no mode-change or setpoint-change request.
C5_OutOfRangeNotFound ==
    \A t \in Tasks :
        (/\ task[t].op.name \in {"get_zone_info", "get_zone_flow_temperature",
                                 "update_zone_mode", "update_zone_temperature"}
         /\ task[t].op.a \notin 0..(ZoneCount - 1)) =>
            /\ task[t].calls \cap {"patch", "set_manual_mode_setpoint"} = {}
            /\ (task[t].pc = "done" /\ ~IsRaise(task[t].ret))
                   => task[t].ret = [error |-> "Zone not found"]

\* C6: no step of a write operation, successful or failed, changes the
\* cache: no entry added, overwritten or removed, no expiry changed.
C6_WritesLeaveCache ==
    [][\A t \in Tasks :
          (IsWrite(task[t].op) /\ task'[t] # task[t])
              => (CACHE' = CACHE /\ CACHE_TTL' = CACHE_TTL)]_vars

\* update_zone_temperature has succeeded while the cache holds the zone's
\* info as it was before the update
C6_Witness ==
    \E t \in Tasks :
        /\ task[t].op.name = "update_zone_temperature"
        /\ task[t].pc = "done"
        /\ "message" \in DOMAIN task[t].ret
        /\ LET k == "zone_info_" \o ToString(task[t].op.a) IN
             /\ k \in DOMAIN CACHE
             /\ CACHE_TTL[k] > now
             /\ CACHE[k].desired_temperature # task[t].op.b

\* t's step runs ensure_authenticated: it is the first run of a write
\* operation, or of a read operation that the cache does not serve
RunsEnsureAuthenticated(t) ==
    /\ Starts(t)
    /\ IsWrite(task[t].op) \/ ~Truthy(get_from_cache(cache_key(task[t].op)))

\* the session's login was attempted and failed
LoginFailed ==
    /\ api = Session
    /\ expires = NoExpiry
    /\ \A u \in Tasks : task[u].pc # "login"

\* C7: after a failed login the next ensure_authenticated() performs the
\* login again, and while the token is expired (as after a failed refresh)
\* the next ensure_authenticated() performs the refresh again.
C7_RetryFromScratch ==
    [][\A t \in Tasks :
          RunsEnsureAuthenticated(t) =>
             /\ LoginFailed => task'[t].pc = "login"
             /\ (expires # NoExpiry /\ expires <= now) => task'[t].pc = "refresh"]_vars

\* C8: a write operation never raises on the failure of a vendor request
\* made while it runs, the fetch of the systems included: it returns an
\* error result.
C8_WriteNeverRaises ==
    \A t \in Tasks :
        (IsWrite(task[t].op) /\ task[t].pc = "done")
            => task[t].ret # [raised |-> "VendorError"]

\* C9: at most one vendor request is in flight at any time.
C9_SingleFlight ==
    Cardinality({t \in Tasks : InFlight(t)}) <= 1

\* C10: CACHE and CACHE_TTL have the same keys, and each entry's expiry is
\* the one written by the set_cache call that wrote the entry's value: the
\* time of that call plus the TTL of the key's kind.
C10_EntriesWhole ==
    /\ DOMAIN CACHE = DOMAIN CACHE_TTL
    /\ \A k \in DOMAIN CACHE :
          \E o \in Ops :
              /\ IsRead(o)
              /\ cache_key(o) = k
              /\ CACHE_TTL[k] = setAt[k] + TtlWindow[Kind(o)]

\* two reads of one key are interleaved: one has fetched and stored its
\* result over an earlier entry while the other is still fetching
C10_Witness ==
    \E t \in Tasks, u \in Tasks :
        /\ t # u
        /\ IsRead(task[t].op)
        /\ task[u].op = task[t].op
        /\ task[t].pc = "done"
        /\ "get_systems" \in task[t].calls
        /\ task[t].stale
        /\ cache_key(task[t].op) \in DOMAIN CACHE
        /\ task[t].ret = CACHE[cache_key(task[t].op)]
        /\ task[u].pc = "systems"

\* the vendor requests that read data or change a setting
DataOrControl ==
    {"get_systems", "get_data_by_device", "get_system_api_base", "patch",
     "set_manual_mode_setpoint"}

\* this step is the failure of t's login or token refresh
AuthFails(t) ==
    /\ task[t].pc \in {"login", "refresh"}
    /\ task'[t].pc = "done"

\* C11: an operation whose login or token refresh fails ends there with the
\* error raised: it has made no data or control request, it has tried to
\* log in or to refresh once, and the cache is as it was.
C11_AuthFailurePropagates ==
    [][\A t \in Tasks :
          /\ AuthFails(t) =>
                /\ task'[t].ret = [raised |-> "AuthError"]
                /\ task'[t].calls \cap DataOrControl = {}
                /\ task'[t].auths = 1
                /\ UNCHANGED <<CACHE, CACHE_TTL>>
          /\ task'[t].auths > task[t].auths => task[t].auths = 0]_vars

\* a write operation has ended on a failed token refresh while the cache
\* holds an entry
C11_Witness ==
    \E t \in Tasks :
        /\ task[t].pc = "done"
        /\ task[t].ret = [raised |-> "AuthError"]
        /\ task[t].calls = {"refresh_token"}
        /\ IsWrite(task[t].op)
        /\ CACHE # <<>>

\* C12: when the vendor returns more than one system, only the first one is
\* consulted: no operation sends a request for, or returns or stores a result
\* taken from, a second or later system; past the first system an operation
\* can only be waiting for get_systems() or have failed.
C12_FirstSystemOnly ==
    \A t \in Tasks :
        (task[t].i >= 2 /\ task[t].i <= Len(vendor)) =>
            \/ task[t].pc = "systems"
            \/ task[t].pc = "done" /\ IsRaise(task[t].ret)

\* C13: ensure_authenticated() on a session that has logged in awaits
\* refresh_token() exactly when the token's expiry is at or before now; with
\* the expiry after now it awaits neither login nor refresh and leaves the
\* session and its expiry as they are.
C13_RefreshIffExpired ==
    [][\A t \in Tasks :
          (RunsEnsureAuthenticated(t) /\ api = Session /\ expires # NoExpiry) =>
             /\ task'[t].pc = "refresh" <=> expires <= now
             /\ task'[t].pc # "login"
             /\ expires > now =>
                   /\ task'[t].auths = 0
                   /\ task'[t].pc = "systems"
                   /\ UNCHANGED <<api, expires>>]_vars

\* an operation is refreshing a token that expires at this very instant
C13_Witness ==
    \E t \in Tasks :
        /\ task[t].pc = "refresh"
        /\ expires = now

\* this step ends a read operation of t with an {"error": ...} result
ReadEndsInError(t) ==
    /\ task[t].pc # "done"
    /\ task'[t].pc = "done"
    /\ IsRead(task[t].op)
    /\ IsError(task'[t].ret)

\* C16: the cache holds results of successful fetches only: no entry is an
\* {"error": ...} result, and a read operation that ends in an error result
\* leaves the cache as it was.
C16_NoErrorCached ==
    [][/\ \A k \in DOMAIN CACHE' : ~IsError(CACHE'[k])
       /\ \A t \in Tasks :
             ReadEndsInError(t) => UNCHANGED <<CACHE, CACHE_TTL>>]_vars

\* a read of a zone without a flow temperature has returned its error and
\* the cache has no entry for it
C16_Witness ==
    \E t \in Tasks :
        /\ task[t].pc = "done"
        /\ task[t].op.name = "get_zone_flow_temperature"
        /\ IsError(task[t].ret)
        /\ vendor # <<>>
        /\ InRange(task[t].op.a, vendor[1])
        /\ cache_key(task[t].op) \notin DOMAIN CACHE

\* C17: the session object is created once and login() is invoked once:
\* once init_api has assigned the session, no step assigns it again and no
\* operation starts a login, whether the first login is still in flight,
\* has succeeded or has failed.
C17_OneSessionOneLogin ==
    [][api # NoSession =>
          /\ api' = api
          /\ \A t \in Tasks : task'[t].pc = "login" => task[t].pc = "login"]_vars

\* after a failed login an operation has run ensure_authenticated while
\* another one is about to
C17_Witness ==
    /\ LoginFailed
    /\ \E t, u \in Tasks :
          /\ task[t].ret = [raised |-> "TypeError"]
          /\ task[u].pc = "scheduled"

\* C18: no operation makes a data or control request on a session whose
\* login has not completed successfully, also when it starts while another
\* operation's login is in flight.
C18_NoRequestBeforeLogin ==
    \A t \in Tasks :
        task[t].calls \cap DataOrControl # {} => expires # NoExpiry

\* an operation that started while another one's login was in flight has
\* ended in ensure_authenticated
C18_Witness ==
    \E t, u \in Tasks :
        /\ task[t].pc = "login"
        /\ task[u].pc = "done"
        /\ task[u].ret = [raised |-> "TypeError"]
        /\ task[u].calls = {}

\* the loop has been asked to stop only after the close of a session the
\* handler found has completed, and without a session no close is queued
CloseBeforeStop ==
    /\ (sd.hadSession /\ sd.loop # "running") => sd.close = "done"
    /\ ~sd.hadSession => sd.close = "none"

\* C14: on a shutdown signal, a session that exists is closed, and the close
\* has completed, before the loop is asked to stop; without a session no
\* close is attempted; in both cases the loop is eventually stopped.
C14_ShutdownClosesThenStops ==
    /\ []CloseBeforeStop
    /\ (sd.pc # "none") ~> (sd.loop = "stopped")

\* the loop has stopped after the session's connection was closed
C14_Witness ==
    /\ sd.loop = "stopped"
    /\ sd.hadSession
    /\ sd.close = "done"
    /\ api = Session

\* the next step of t's coroutine, or of the handler that waits for it
Progress(t) ==
    \/ Start(t)
    \/ \E ok \in BOOLEAN :
          \/ LoginReturn(t, ok)
          \/ RefreshReturn(t, ok)
          \/ SystemsNext(t, ok)
          \/ DataReturn(t, ok)
          \/ ApiBaseReturn(t, ok)
          \/ PatchReturn(t, ok)
          \/ SetpointReturn(t, ok)
    \/ Collect(t)

\* C19: a handler that has submitted a coroutine and blocks on its result
\* gets a result or an exception, every vendor request returning or failing:
\* its coroutine is never left without a next step, also when it was
\* submitted after shutdown_server has run.
C19_HandlerGetsResult ==
    \A t \in Tasks : task[t].pc # "idle" => ENABLED Progress(t)

\* the calendar month that follows month M of year Y, by counting months
FollowingMonth(M, Y) ==
    LET n == 12 * Y + (M - 1) + 1
    IN [year |-> n \div 12, month |-> (n % 12) + 1]

\* the first instant of month M of year Y
FirstInstant(M, Y) == [days |-> ymd2ord(Y, M, 1), seconds |-> 0]

\* the instant one second after dt
SecondAfter(dt) ==
    IF dt.seconds = 86399 THEN [days |-> dt.days + 1, seconds |-> 0]
    ELSE [dt EXCEPT !.seconds = @ + 1]

\* t's data request asks for the window from the first instant of its month
\* to one second before the first instant of the following month
MonthWindow(t) ==
    LET M == task[t].op.a
        Y == task[t].op.b
        F == FollowingMonth(M, Y)
    IN /\ task[t].req.start = FirstInstant(M, Y)
       /\ SecondAfter(task[t].req.end) = FirstInstant(F.month, F.year)
       /\ M = 12 => SecondAfter(task[t].req.end) = FirstInstant(1, Y + 1)

\* t runs get_gas_consumption(M, Y) with M in 1..12
GasOfMonth(t) ==
    /\ task[t].op.name = "get_gas_consumption"
    /\ task[t].op.a \in 1..12

\* both the month and the month that follows it are months of datetime
Representable(M, Y) ==
    /\ MINYEAR <= Y
    /\ Y <= MAXYEAR
    /\ ~(M = 12 /\ Y = MAXYEAR)

\* C15 as stated: for every year Y and month M in 1..12,
\* get_gas_consumption(M, Y) asks the vendor for the window from the first
\* instant of month M of year Y to one second before the first instant of
\* the following month, in December one second before January 1st of Y + 1:
\* it never fails on computing the window.
C15_EveryYear ==
    \A t \in Tasks :
        GasOfMonth(t) =>
            /\ task[t].pc = "data" => MonthWindow(t)
            /\ task[t].ret # [raised |-> "ValueError"]

\* C15 amended: the same for every month M in 1..12 of a year Y in 1..9999
\* other than December 9999; for December 9999, whose following month no
\* datetime represents, the operation raises ValueError and asks the vendor
\* for no data.
C15_RepresentableYears ==
    \A t \in Tasks :
        GasOfMonth(t) =>
            /\ task[t].pc = "data" => MonthWindow(t)
            /\ Representable(task[t].op.a, task[t].op.b) =>
                  task[t].ret # [raised |-> "ValueError"]
            /\ ~Representable(task[t].op.a, task[t].op.b) =>
                  "get_data_by_device" \notin task[t].calls

\* the data of December 2024 is requested up to 23:59:59 of December 31st
C15_Witness ==
    \E t \in Tasks :
        /\ task[t].pc = "data"
        /\ task[t].op.a = 12
        /\ task[t].op.b = 2024
        /\ task[t].req.end = [days |-> ymd2ord(2024, 12, 31), seconds |-> 86399]

====
